---- MODULE Spec2Model ----
(***************************************************************************)
(* blade_design_tool.py: load the baseline blade (element table + twist    *)
(* sub-table of the configuration file), apply the blade modifiers to a    *)
(* working copy, resample the twist, copy the two files, rewrite the       *)
(* copies and run the solver.                                              *)
(*                                                                         *)
(* Numbers are exact rationals <<numerator, denominator>>; the script's    *)
(* float64 rounding is not modelled.  The plots (lines 62-68, 157-161) and *)
(* the post-processing after the solver run (lines 226-233) read the state *)
(* and are left out.                                                       *)
(***************************************************************************)
EXTENDS Integers, Sequences, FiniteSets, TLC

\* ------------------------------------------------------------ bounds
\* Largest number of blade sections in the element table (N, line 37).
MaxSec == 4
\* Radii are RadiusUnit * k for k in 0..MaxRadius.
MaxRadius == 4
\* Line of the configuration file where the twist sub-table starts
\* (110 in the script, for the DTU 10 MW file; scaled down here).
htc_start_line == 2
\* Number of twist-defining sections (27 in the script; scaled down here).
n_sec == 3
\* Longest manual_multiplier list tried.
MaxWeights == 4

\* ------------------------------------------------------------ constants
ae_start_line == 2
skiprows == 2
CylindricalThickness == 100

htc_end_line == htc_start_line + n_sec

\* ------------------------------------------------------------ rationals
Abs(x) == IF x < 0 THEN -x ELSE x

RECURSIVE GCD(_, _)
GCD(a, b) == IF b = 0 THEN a ELSE GCD(b, a % b)

Rat(n, d) ==
  LET s == IF d < 0 THEN -1 ELSE 1
      g == GCD(Abs(n), Abs(d))
  IN  <<(s * n) \div g, (s * d) \div g>>

Q(n) == <<n, 1>>
RAdd(a, b) == Rat(a[1] * b[2] + b[1] * a[2], a[2] * b[2])
RSub(a, b) == Rat(a[1] * b[2] - b[1] * a[2], a[2] * b[2])
RMul(a, b) == Rat(a[1] * b[1], a[2] * b[2])
RDiv(a, b) == Rat(a[1] * b[2], a[2] * b[1])
RNeg(a) == <<-a[1], a[2]>>
RLe(a, b) == a[1] * b[2] <= b[1] * a[2]
RLt(a, b) == a[1] * b[2] < b[1] * a[2]
RGe(a, b) == RLe(b, a)

\* ------------------------------------------------------------ numpy helpers
\* np.interp(x, xp, fp) for increasing xp: clamped at both ends, linear
\* between the two knots that bracket x.
Interp(x, xp, fp) ==
  LET n == Len(xp) IN
  IF RLt(x, xp[1]) THEN fp[1]
  ELSE IF RGe(x, xp[n]) THEN fp[n]
  ELSE LET j == CHOOSE k \in 1..(n - 1) : RLe(xp[k], x) /\ RLt(x, xp[k + 1])
           slope == RDiv(RSub(fp[j + 1], fp[j]), RSub(xp[j + 1], xp[j]))
       IN  RAdd(RMul(slope, RSub(x, xp[j])), fp[j])

InterpAll(xs, xp, fp) == [k \in 1..Len(xs) |-> Interp(xs[k], xp, fp)]

\* np.cos(r * np.pi) for r in [0, 1], as the rational approximation
\* (1 - 4 r^2) / (1 + r^2) on [0, 1/2], mirrored on [1/2, 1]; it is exact at
\* r = 0, 1/3, 1/2, 2/3, 1.
CosHalf(r) == RDiv(RSub(Q(1), RMul(Q(4), RMul(r, r))), RAdd(Q(1), RMul(r, r)))
CosPi(r) == IF RLe(r, Rat(1, 2)) THEN CosHalf(r) ELSE RNeg(CosHalf(RSub(Q(1), r)))

\* ------------------------------------------------------------ text files
\* A file is a sequence of lines.  A line is its leading whitespace, its
\* tokens as line.strip().split(" ") yields them, and whether a newline ends
\* it.  A token is the sequence of its tab-separated fields; the empty token
\* (the "" between two adjacent spaces) is the empty sequence.  A field is a
\* kind t and, for numbers, the value v its text denotes:
\*   "num"      a number as the original file spells it (e.g. 4.44089E-16)
\*   "num;"     the same, with the terminating semicolon attached
\*   "repr"     a number as Python's str(float) spells it
\*   "repr;\n"  str(float) followed by ";\n", as line 194 builds it
\*   anything else: a word, kept verbatim.
W(s) == [t |-> s, v |-> Q(0)]
Num(x) == [t |-> "num", v |-> x]
NumSemi(x) == [t |-> "num;", v |-> x]
Line(indent, toks, nl) == [indent |-> indent, toks |-> toks, nl |-> nl]

\* str(x) of a float.
Str(x) == [t |-> "repr", v |-> x]

\* line.split(): every whitespace-delimited field of the line, in order.
RECURSIVE Flatten(_)
Flatten(ts) == IF ts = <<>> THEN <<>> ELSE Head(ts) \o Flatten(Tail(ts))
WsFields(line) == Flatten(line.toks)

\* genfromtxt(comments=";"): the line is cut at its first semicolon.
RECURSIVE Uncomment(_)
Uncomment(fs) ==
  IF fs = <<>> THEN <<>>
  ELSE LET f == Head(fs) IN
       IF f.t = ";" THEN <<>>
       ELSE IF f.t = "num;" THEN <<Num(f.v)>>
       ELSE IF f.t = "repr;\n" THEN <<Str(f.v)>>
       ELSE <<f>> \o Uncomment(Tail(fs))

\* np.genfromtxt(htc, skip_header=htc_start_line, max_rows=27, usecols=(4, 5),
\* comments=";"): columns 4 and 5 (0-based) of the n_sec rows that follow the
\* skipped header; fails when a row has no column 5.
GenFromTxt(htc) ==
  LET rows == [k \in 1..n_sec |-> Uncomment(WsFields(htc[htc_start_line + k]))]
      ok == \A k \in 1..n_sec : Len(rows[k]) >= 6
  IN  [ok |-> ok,
       col0 |-> IF ok THEN [k \in 1..n_sec |-> rows[k][5].v] ELSE <<>>,
       col1 |-> IF ok THEN [k \in 1..n_sec |-> rows[k][6].v] ELSE <<>>]

\* np.loadtxt(ae, skiprows=2, usecols=(0, 1, 2)): the first three fields of
\* every non-blank row after the two skipped ones.
IsBlank(line) == WsFields(line) = <<>>
LoadTxt(ae) ==
  LET idx == {k \in (skiprows + 1)..Len(ae) : ~IsBlank(ae[k])}
      n == Cardinality(idx)
      nth[j \in 1..n] == CHOOSE k \in idx : Cardinality({m \in idx : m < k}) = j - 1
  IN  [j \in 1..n |-> LET f == WsFields(ae[nth[j]])
                      IN  [radius |-> f[1].v, chord |-> f[2].v,
                           rel_thickness |-> f[3].v]]

\* Lines 52-56: the N x 4 matrix (radius, twist, chord, rel_thickness), the
\* twist interpolated from the sub-table onto the element-table radii.
GeoMat(ae_data, twist) ==
  [k \in 1..Len(ae_data) |->
     [radius |-> ae_data[k].radius,
      twist |-> Interp(ae_data[k].radius, twist.col0, twist.col1),
      chord |-> ae_data[k].chord,
      rel_thickness |-> ae_data[k].rel_thickness]]

\* Lines 59-60.
RadiusNd(mat) == [k \in 1..Len(mat) |-> RDiv(mat[k].radius, mat[Len(mat)].radius)]

\* ------------------------------------------------------------ blade modifiers
Kinds == {"root_linear_chord_addition", "tip_cos_chord_addition",
          "cos_chord_addition", "twist_the_root", "supertwist_the_root",
          "make_root_cylindrical"}

\* The comparison of lines 86, 120, 141, 152 made strict.
RootSelectedLt(r, until) == RLt(r, until)
\* `if radius <= changes_until` (lines 86, 120, 141, 152).
RootSelected(r, until) == RLe(r, until)
\* `if radius >= changes_from` (line 99).
TipSelected(r, from) == RGe(r, from)

\* Line 87-88 with the sign of the shift flipped, and with the parentheses
\* of line 81 forgotten (chord - amount * r - 1.0).
LinearChordPlus(c, r, chord_addition) == RAdd(c, RMul(chord_addition, RSub(r, Q(1))))
LinearChordNoParens(c, r, chord_addition) == RSub(RSub(c, RMul(chord_addition, r)), Q(1))
\* Lines 81-89.
LinearChord(c, r, chord_addition) == RSub(c, RMul(chord_addition, RSub(r, Q(1))))
RootLinearChordAddition(mat, rnd, chord_addition, changes_until) ==
  [k \in 1..Len(mat) |->
     IF RootSelected(rnd[k], changes_until)
     THEN [mat[k] EXCEPT !.chord = LinearChord(@, rnd[k], chord_addition)]
     ELSE mat[k]]

\* Lines 94-102.
TipCosChordAddition(mat, rnd, chord_addition, changes_from) ==
  [k \in 1..Len(mat) |->
     IF TipSelected(rnd[k], changes_from)
     THEN [mat[k] EXCEPT !.chord = RAdd(@, RMul(chord_addition, RNeg(CosPi(rnd[k]))))]
     ELSE mat[k]]

\* Lines 107-110.
CosChordAddition(mat, rnd, chord_addition) ==
  [k \in 1..Len(mat) |->
     [mat[k] EXCEPT !.chord = RAdd(@, RMul(chord_addition, RNeg(CosPi(rnd[k]))))]]

\* Lines 115-123.
TwistTheRoot(mat, rnd, twist_addition, changes_until) ==
  [k \in 1..Len(mat) |->
     IF RootSelected(rnd[k], changes_until)
     THEN [mat[k] EXCEPT !.twist =
                  RAdd(@, RMul(twist_addition, RNeg(RSub(rnd[k], Q(1)))))]
     ELSE mat[k]]

\* Lines 139-144 with the sections that have no weight skipped silently.
SupertwistSkipsShort(mat, rnd, twist_addition, changes_until, manual_multiplier) ==
  [mat |-> [k \in 1..Len(mat) |->
              IF RLe(rnd[k], changes_until) /\ k <= Len(manual_multiplier)
              THEN [mat[k] EXCEPT !.twist =
                      RAdd(@, RMul(twist_addition, manual_multiplier[k]))]
              ELSE mat[k]],
   err |-> "none"]

\* Lines 139-144: the loop indexes manual_multiplier with the section index
\* i, so it raises IndexError at the first selected section that has no
\* weight; the sections before it have been updated by then.
SupertwistTheRoot(mat, rnd, twist_addition, changes_until, manual_multiplier) ==
  LET n == Len(mat)
      short == {k \in 1..n : RootSelected(rnd[k], changes_until)
                             /\ k > Len(manual_multiplier)}
      stop == IF short = {} THEN n + 1
              ELSE CHOOSE k \in short : \A m \in short : k <= m
  IN  [mat |-> [k \in 1..n |->
                  IF k < stop /\ RootSelected(rnd[k], changes_until)
                  THEN [mat[k] EXCEPT !.twist =
                          RAdd(@, RMul(twist_addition, manual_multiplier[k]))]
                  ELSE mat[k]],
       err |-> IF short = {} THEN "none" ELSE "IndexError"]

\* Lines 149-154.
MakeRootCylindrical(mat, rnd, changes_until) ==
  [k \in 1..Len(mat) |->
     IF RootSelected(rnd[k], changes_until)
     THEN [mat[k] EXCEPT !.rel_thickness = Q(CylindricalThickness)]
     ELSE mat[k]]

\* Lines 78-154: the six modifiers in the script's order, each behind its
\* switch; p holds the switches and numbers.
ModifierStack(mat, rnd, p) ==
  LET On(kind) == kind \in p.enabled
      m1 == IF On("root_linear_chord_addition")
            THEN RootLinearChordAddition(mat, rnd, p.chord_addition, p.changes_until)
            ELSE mat
      m2 == IF On("tip_cos_chord_addition")
            THEN TipCosChordAddition(m1, rnd, p.chord_addition, p.changes_from)
            ELSE m1
      m3 == IF On("cos_chord_addition")
            THEN CosChordAddition(m2, rnd, p.chord_addition)
            ELSE m2
      m4 == IF On("twist_the_root")
            THEN TwistTheRoot(m3, rnd, p.twist_addition, p.changes_until)
            ELSE m3
      s5 == IF On("supertwist_the_root")
            THEN SupertwistTheRoot(m4, rnd, p.twist_addition, p.changes_until,
                                   p.manual_multiplier)
            ELSE [mat |-> m4, err |-> "none"]
      m6 == IF s5.err = "none" /\ On("make_root_cylindrical")
            THEN MakeRootCylindrical(s5.mat, rnd, p.changes_until)
            ELSE s5.mat
  IN  [mat |-> m6, err |-> s5.err]

\* ------------------------------------------------------------ file rewriting
\* `"ae_filename" in line` (line 187).
MentionsAeFilename(line) == \E k \in 1..Len(line.toks) :
                              \E m \in 1..Len(line.toks[k]) : line.toks[k][m].t = "ae_filename"

\* The line that line 188 writes: "\tae_filename ./data/{design_name}_ae.dat;\n".
NewAeReference ==
  Line("\t", << <<W("ae_filename")>>, <<W("./data/WDR_10_MW_ae.dat;")>> >>, TRUE)

\* list.remove(""): drops the first empty token only.
RemoveFirstEmpty(toks) ==
  IF \E k \in 1..Len(toks) : toks[k] = <<>>
  THEN LET p == CHOOSE k \in 1..Len(toks) :
                   toks[k] = <<>> /\ \A m \in 1..(k - 1) : toks[m] # <<>>
       IN  SubSeq(toks, 1, p - 1) \o SubSeq(toks, p + 1, Len(toks))
  ELSE toks

\* str(htc_twist[...]) + ";\n" (line 194).
TwistToken(x) == <<[t |-> "repr;\n", v |-> x]>>

\* Lines 190-196 without the removal of the empty token (lines 191-193).
HtcTwistLineKeepEmpty(line, old, x) ==
  IF Len(line.toks) < 5
  THEN [err |-> "IndexError", line |-> old]
  ELSE [err |-> "none", line |-> Line("\t\t", [line.toks EXCEPT ![5] = TwistToken(x)], FALSE)]

\* The token index line 194 assigns (0-based 4).
TwistTokenIndex == 5

\* Lines 190-196 for one line of the twist range: the new content entry, or
\* IndexError when the line has fewer than five tokens.
HtcTwistLine(line, old, x) ==
  LET toks == RemoveFirstEmpty(line.toks) IN
  IF Len(toks) < TwistTokenIndex
  THEN [err |-> "IndexError", line |-> old]
  ELSE [err |-> "none",
        line |-> Line("\t\t", [toks EXCEPT ![TwistTokenIndex] = TwistToken(x)], FALSE)]

\* Lines 187-196 for line i (0-based) of the configuration file: the entry
\* content[i] ends up with.
HtcEntry(line, old, i0, twists) ==
  LET ref == IF MentionsAeFilename(line) THEN NewAeReference ELSE old IN
  IF i0 >= htc_start_line /\ i0 < htc_end_line
  THEN HtcTwistLine(line, ref, twists[i0 - htc_start_line + 1])
  ELSE [err |-> "none", line |-> ref]

\* line.strip().split("\t") (line 211): the fields of a tab-delimited row; a
\* row with spaces between its numbers is one single field.
SplitTab(line) ==
  IF Len(line.toks) = 1
  THEN (IF line.toks[1] = <<>> THEN <<W("")>> ELSE line.toks[1])
  ELSE <<W("whole row")>>

\* Lines 212-214 with the chord taken from column 1 (the twist) of the matrix.
AeFieldsTwistColumn(sec) == <<Str(sec.radius), Str(sec.twist), Str(sec.rel_thickness)>>
\* Lines 212-214: the three leading fields of a rewritten row.
AeFields(sec) == <<Str(sec.radius), Str(sec.chord), Str(sec.rel_thickness)>>

\* Lines 210-216 for row i (0-based) of the element table.
AeEntry(line, old, i0, mat) ==
  IF i0 < ae_start_line THEN [err |-> "none", line |-> old]
  ELSE LET f == SplitTab(line)
           k == i0 - ae_start_line + 1
       IN  IF k > Len(mat) \/ Len(f) < 3
           THEN [err |-> "IndexError", line |-> old]
           ELSE [err |-> "none",
                 line |-> Line("", <<AeFields(mat[k]) \o SubSeq(f, 4, Len(f))>>, TRUE)]

\* ------------------------------------------------------------ state
VARIABLES
  orig,          \* the two original files: [htc, ae]
  params,        \* the modifier switches and their numbers
  arrays,        \* numpy buffers: A0 is geo_mat, A1 the copy of line 72
  working_ref,   \* the buffer working_mat names
  radius_nd, twist_radii, htc_twist,
  new_htc, new_ae,   \* the derived files: [exists, lines]
  content, i,    \* the list and index of the two rewrite loops
  solver_runs,   \* calls of h2s.run_hawc2s
  pc, err

vars == <<orig, params, arrays, working_ref, radius_nd, twist_radii, htc_twist,
          new_htc, new_ae, content, i, solver_runs, pc, err>>

geo_mat == arrays["A0"]
working_mat == arrays[working_ref]
Absent == [exists |-> FALSE, lines |-> <<>>]

\* working_mat = geo_mat, without the copy: both names, one buffer.
NdarrayAlias(buf) == buf
\* geo_mat.copy() (line 72) returns a new buffer.
NdarrayCopy(buf) == "A1"

\* ------------------------------------------------------------ the script
\* Lines 32-60: read both files, build geo_mat and radius_nd.
LoadBaseline ==
  /\ pc = "load"
  /\ LET twist == GenFromTxt(orig.htc)
         mat == GeoMat(LoadTxt(orig.ae), twist)
     IN  IF twist.ok
         THEN /\ arrays' = [arrays EXCEPT !["A0"] = mat]
              /\ twist_radii' = twist.col0
              /\ radius_nd' = RadiusNd(mat)
              /\ pc' = "copy"
              /\ err' = err
         ELSE /\ pc' = "failed"
              /\ err' = "genfromtxt"
              /\ UNCHANGED <<arrays, twist_radii, radius_nd>>
  /\ UNCHANGED <<orig, params, working_ref, htc_twist, new_htc, new_ae, content,
                 i, solver_runs>>

\* Line 72: working_mat = geo_mat.copy().
CopyGeoMat ==
  /\ pc = "copy"
  /\ working_ref' = NdarrayCopy("A0")
  /\ arrays' = [arrays EXCEPT ![NdarrayCopy("A0")] = arrays["A0"]]
  /\ pc' = "root_linear_chord_addition"
  /\ UNCHANGED <<orig, params, radius_nd, twist_radii, htc_twist, new_htc, new_ae,
                 content, i, solver_runs, err>>

ModifierFrame == UNCHANGED <<orig, params, working_ref, radius_nd, twist_radii,
                             htc_twist, new_htc, new_ae, content, i, solver_runs>>

\* Lines 79-89.
ApplyRootLinearChordAddition ==
  /\ pc = "root_linear_chord_addition"
  /\ arrays' = IF pc \in params.enabled
               THEN [arrays EXCEPT ![working_ref] =
                       RootLinearChordAddition(@, radius_nd, params.chord_addition,
                                               params.changes_until)]
               ELSE arrays
  /\ pc' = "tip_cos_chord_addition"
  /\ err' = err
  /\ ModifierFrame

\* Lines 92-102.
ApplyTipCosChordAddition ==
  /\ pc = "tip_cos_chord_addition"
  /\ arrays' = IF pc \in params.enabled
               THEN [arrays EXCEPT ![working_ref] =
                       TipCosChordAddition(@, radius_nd, params.chord_addition,
                                           params.changes_from)]
               ELSE arrays
  /\ pc' = "cos_chord_addition"
  /\ err' = err
  /\ ModifierFrame

\* Lines 105-110.
ApplyCosChordAddition ==
  /\ pc = "cos_chord_addition"
  /\ arrays' = IF pc \in params.enabled
               THEN [arrays EXCEPT ![working_ref] =
                       CosChordAddition(@, radius_nd, params.chord_addition)]
               ELSE arrays
  /\ pc' = "twist_the_root"
  /\ err' = err
  /\ ModifierFrame

\* Lines 113-123.
ApplyTwistTheRoot ==
  /\ pc = "twist_the_root"
  /\ arrays' = IF pc \in params.enabled
               THEN [arrays EXCEPT ![working_ref] =
                       TwistTheRoot(@, radius_nd, params.twist_addition,
                                    params.changes_until)]
               ELSE arrays
  /\ pc' = "supertwist_the_root"
  /\ err' = err
  /\ ModifierFrame

\* Lines 127-144; an IndexError is not caught and ends the script.
ApplySupertwistTheRoot ==
  /\ pc = "supertwist_the_root"
  /\ LET res == SupertwistTheRoot(working_mat, radius_nd, params.twist_addition,
                                  params.changes_until, params.manual_multiplier)
     IN  IF pc \in params.enabled
         THEN /\ arrays' = [arrays EXCEPT ![working_ref] = res.mat]
              /\ pc' = IF res.err = "none" THEN "make_root_cylindrical" ELSE "failed"
              /\ err' = IF res.err = "none" THEN err ELSE res.err
         ELSE /\ arrays' = arrays
              /\ pc' = "make_root_cylindrical"
              /\ err' = err
  /\ ModifierFrame

\* Lines 147-154.
ApplyMakeRootCylindrical ==
  /\ pc = "make_root_cylindrical"
  /\ arrays' = IF pc \in params.enabled
               THEN [arrays EXCEPT ![working_ref] =
                       MakeRootCylindrical(@, radius_nd, params.changes_until)]
               ELSE arrays
  /\ pc' = "resample"
  /\ err' = err
  /\ ModifierFrame

\* Line 164: htc_twist = np.interp(twist_radii, working_mat[:, 0], working_mat[:, 1]).
Column(mat, f) == [k \in 1..Len(mat) |-> mat[k][f]]
\* Line 164 reading column 2 (the chord) of the matrix.
HtcTwistChordColumn(radii, mat) ==
  InterpAll(radii, Column(mat, "radius"), Column(mat, "chord"))
HtcTwist(radii, mat) == InterpAll(radii, Column(mat, "radius"), Column(mat, "twist"))
ResampleTwist ==
  /\ pc = "resample"
  /\ htc_twist' = HtcTwist(twist_radii, working_mat)
  /\ pc' = "copy_files"
  /\ UNCHANGED <<orig, params, arrays, working_ref, radius_nd, twist_radii, new_htc,
                 new_ae, content, i, solver_runs, err>>

\* Lines 171-177: the two copies in one try block; whichever copy raises,
\* the except branch prints and quits.  fault names the copy that raises.
\* The except branch without its quit().
CopyKeepsGoing(fault) ==
  [htc |-> IF fault = "htc" THEN new_htc ELSE [exists |-> TRUE, lines |-> orig.htc],
   ae |-> IF fault = "none" THEN [exists |-> TRUE, lines |-> orig.ae] ELSE new_ae,
   pc |-> "htc_read",
   err |-> IF fault = "none" THEN err ELSE "copy"]
CopyOutcome(fault) ==
  [htc |-> IF fault = "htc" THEN new_htc ELSE [exists |-> TRUE, lines |-> orig.htc],
   ae |-> IF fault = "none" THEN [exists |-> TRUE, lines |-> orig.ae] ELSE new_ae,
   pc |-> IF fault = "none" THEN "htc_read" ELSE "quit",
   err |-> IF fault = "none" THEN err ELSE "copy"]
CopyFiles ==
  /\ pc = "copy_files"
  /\ \E fault \in {"none", "htc", "ae"} :
       /\ new_htc' = CopyOutcome(fault).htc
       /\ new_ae' = CopyOutcome(fault).ae
       /\ pc' = CopyOutcome(fault).pc
       /\ err' = CopyOutcome(fault).err
  /\ UNCHANGED <<orig, params, arrays, working_ref, radius_nd, twist_radii,
                 htc_twist, content, i, solver_runs>>

FileFrame == UNCHANGED <<orig, params, arrays, working_ref, radius_nd, twist_radii,
                         htc_twist, solver_runs>>

\* Lines 181-182: content = new_htc_file.readlines().
HtcRead ==
  /\ pc = "htc_read"
  /\ content' = new_htc.lines
  /\ i' = 0
  /\ pc' = "htc_loop"
  /\ UNCHANGED <<new_htc, new_ae, err>>
  /\ FileFrame

\* The loop writing each rebuilt line to the file as it goes.
WriteThrough(file, lines) == [exists |-> TRUE, lines |-> lines]
\* Lines 185-186 and 208-209: the copy is opened 'r+' but the loop only reads
\* it; the file on disk stays as it is while content is rebuilt.
FileDuringLoop(file, lines) == file

\* Lines 186-196: one iteration of the loop over the file's lines; the loop
\* ends after the last line, an IndexError ends the script.
HtcLoop ==
  /\ pc = "htc_loop"
  /\ IF i >= Len(new_htc.lines)
     THEN /\ pc' = "htc_write"
          /\ UNCHANGED <<content, i, err>>
     ELSE LET e == HtcEntry(new_htc.lines[i + 1], content[i + 1], i, htc_twist)
          IN  /\ content' = [content EXCEPT ![i + 1] = e.line]
              /\ i' = IF e.err = "none" THEN i + 1 ELSE i
              /\ pc' = IF e.err = "none" THEN pc ELSE "failed"
              /\ err' = IF e.err = "none" THEN err ELSE e.err
  /\ new_htc' = FileDuringLoop(new_htc, content')
  /\ UNCHANGED new_ae
  /\ FileFrame

\* Lines 199-200: the whole list is written over the file.
HtcWrite ==
  /\ pc = "htc_write"
  /\ new_htc' = [exists |-> TRUE, lines |-> content]
  /\ pc' = "ae_read"
  /\ UNCHANGED <<new_ae, content, i, err>>
  /\ FileFrame

\* Lines 204-205.
AeRead ==
  /\ pc = "ae_read"
  /\ content' = new_ae.lines
  /\ i' = 0
  /\ pc' = "ae_loop"
  /\ UNCHANGED <<new_htc, new_ae, err>>
  /\ FileFrame

\* Lines 208-216.
AeLoop ==
  /\ pc = "ae_loop"
  /\ IF i >= Len(new_ae.lines)
     THEN /\ pc' = "ae_write"
          /\ UNCHANGED <<content, i, err>>
     ELSE LET e == AeEntry(new_ae.lines[i + 1], content[i + 1], i, working_mat)
          IN  /\ content' = [content EXCEPT ![i + 1] = e.line]
              /\ i' = IF e.err = "none" THEN i + 1 ELSE i
              /\ pc' = IF e.err = "none" THEN pc ELSE "failed"
              /\ err' = IF e.err = "none" THEN err ELSE e.err
  /\ new_ae' = FileDuringLoop(new_ae, content')
  /\ UNCHANGED new_htc
  /\ FileFrame

\* Lines 219-220.
AeWrite ==
  /\ pc = "ae_write"
  /\ new_ae' = [exists |-> TRUE, lines |-> content]
  /\ pc' = "run"
  /\ UNCHANGED <<new_htc, content, i, err>>
  /\ FileFrame

\* Line 224: h2s.run_hawc2s(design_name).
RunHawc2s ==
  /\ pc = "run"
  /\ solver_runs' = solver_runs + 1
  /\ pc' = "done"
  /\ UNCHANGED <<orig, params, arrays, working_ref, radius_nd, twist_radii,
                 htc_twist, new_htc, new_ae, content, i, err>>

Next ==
  \/ LoadBaseline
  \/ CopyGeoMat
  \/ ApplyRootLinearChordAddition
  \/ ApplyTipCosChordAddition
  \/ ApplyCosChordAddition
  \/ ApplyTwistTheRoot
  \/ ApplySupertwistTheRoot
  \/ ApplyMakeRootCylindrical
  \/ ResampleTwist
  \/ CopyFiles
  \/ HtcRead
  \/ HtcLoop
  \/ HtcWrite
  \/ AeRead
  \/ AeLoop
  \/ AeWrite
  \/ RunHawc2s

\* ------------------------------------------------------------ input files
\* One row of the twist sub-table, "sec k x y z twist;", in the spacings a
\* configuration file can use between its six fields.
HtcLayouts == {"tab_after_sec", "padded", "spaces", "spaces_semicolon", "tabs",
               "five_fields"}
TwistRowToks(layout, k, z, tw) ==
  CASE layout = "tab_after_sec" ->
         << <<W("sec"), Num(Q(k))>>, <<Num(Q(0))>>, <<Num(Q(0))>>, <<Num(z)>>,
            <<NumSemi(tw)>> >>
    [] layout = "padded" ->
         << <<W("sec"), Num(Q(k))>>, <<>>, <<Num(Q(0))>>, <<Num(Q(0))>>, <<Num(z)>>,
            <<NumSemi(tw)>> >>
    [] layout = "spaces" ->
         << <<W("sec")>>, <<Num(Q(k))>>, <<Num(Q(0))>>, <<Num(Q(0))>>, <<Num(z)>>,
            <<NumSemi(tw)>> >>
    [] layout = "spaces_semicolon" ->
         << <<W("sec")>>, <<Num(Q(k))>>, <<Num(Q(0))>>, <<Num(Q(0))>>, <<Num(z)>>,
            <<Num(tw)>>, <<W(";")>> >>
    [] layout = "tabs" ->
         << <<W("sec"), Num(Q(k)), Num(Q(0)), Num(Q(0)), Num(z), NumSemi(tw)>> >>
    [] layout = "five_fields" ->
         << <<W("sec")>>, <<Num(Q(k))>>, <<Num(Q(0))>>, <<Num(Q(0))>>,
            <<NumSemi(tw)>> >>

OldAeReference ==
  Line("\t", << <<W("ae_filename")>>, <<W("./data/DTU_10MW_RWT_ae.dat;")>> >>, TRUE)

\* htc_start_line lines, the n_sec rows of the twist sub-table, then the line
\* that names the element table and a last line.
HtcFile(layout, radii, twists) ==
  [k \in 1..htc_start_line |-> Line("\t", << <<W("begin")>>, <<Num(Q(k))>> >>, TRUE)]
  \o [k \in 1..n_sec |-> Line("\t\t", TwistRowToks(layout, k, radii[k], twists[k]), TRUE)]
  \o << OldAeReference, Line("", << <<W("exit;")>> >>, FALSE) >>

\* The element table: ae_start_line header rows, one row per section, an
\* optional blank last line.  lay = [tab, extra, indent, blank].
AeLayouts == [tab : BOOLEAN, extra : BOOLEAN, indent : {"", " "}, blank : BOOLEAN]
AeRow(lay, sec) ==
  LET f == <<Num(sec.radius), Num(sec.chord), Num(sec.rel_thickness)>>
           \o (IF lay.extra THEN <<W("1"), W(";")>> ELSE <<>>)
  IN  Line(lay.indent, IF lay.tab THEN <<f>> ELSE [k \in 1..Len(f) |-> <<f[k]>>], TRUE)
AeFile(lay, secs) ==
  [k \in 1..ae_start_line |-> Line("", << <<W("1")>>, <<Num(Q(Len(secs)))>> >>, TRUE)]
  \o [k \in 1..Len(secs) |-> AeRow(lay, secs[k])]
  \o (IF lay.blank THEN << Line("", << <<>> >>, TRUE) >> ELSE <<>>)

\* Strictly increasing radius grids of n points, in units of unit.
IncSeqs(n, unit) ==
  {[k \in 1..n |-> Q(unit * g[k])] :
     g \in {h \in [1..n -> 0..MaxRadius] : \A a \in 1..(n - 1) : h[a] < h[a + 1]}}

\* Sections on grid g: chord 5, 4, 3, ...; the first cyl sections are
\* cylinders (100 %), the others thinner.
Sections(g, cyl) ==
  [k \in 1..Len(g) |->
     [radius |-> g[k], chord |-> Q(6 - k),
      rel_thickness |-> IF k <= cyl THEN Q(100) ELSE Q(60 - 10 * k)]]

\* The twist sub-table grid that spans the blade evenly.
EvenGrid(g) == [k \in 1..n_sec |-> RDiv(RMul(Q(k - 1), g[Len(g)]), Q(n_sec - 1))]
\* Twist profiles: a washout that is not linear, and a linear one.
TwistProfile(name) ==
  [k \in 1..n_sec |-> IF name = "linear" THEN Q(7 * k - 21) ELSE Q(k * k - 15)]

\* manual_multiplier lists: 1, 5/8, 1/2, ...
ManualMultiplier(n) == [k \in 1..n |-> Rat(k + 3, 4 * k)]

TypeInit ==
  /\ arrays = [A0 |-> <<>>, A1 |-> <<>>]
  /\ working_ref = "A0"
  /\ radius_nd = <<>>
  /\ twist_radii = <<>>
  /\ htc_twist = <<>>
  /\ new_htc = Absent
  /\ new_ae = Absent
  /\ content = <<>>
  /\ i = 0
  /\ solver_runs = 0
  /\ pc = "load"
  /\ err = "none"

\* Every subset of the modifiers, on blades whose first and last radius are
\* fixed, and the blade of the end-to-end scenario (radii 0, 50, 100).
ModGrids == {g \in IncSeqs(MaxSec, 1) : g[1] = Q(0) /\ g[MaxSec] = Q(MaxRadius)}
            \cup {<<Q(0), Q(50), Q(100)>>}
Init ==
  /\ TypeInit
  /\ \E g \in ModGrids, layout \in {"tab_after_sec"} :
       orig = [htc |-> HtcFile(layout, EvenGrid(g), TwistProfile("washout")),
               ae |-> AeFile([tab |-> TRUE, extra |-> TRUE, indent |-> "", blank |-> FALSE],
                             Sections(g, 1))]
  /\ \E en \in SUBSET Kinds, a \in {0, 1}, until \in {Rat(1, 4), Rat(1, 2), Q(1)},
        nw \in 1..MaxWeights :
       params = [enabled |-> en, chord_addition |-> Q(-a), twist_addition |-> Q(-13 * a),
                 changes_until |-> until, changes_from |-> Rat(3, 5),
                 manual_multiplier |-> ManualMultiplier(nw)]

Spec == Init /\ [][Next]_vars

\* The file layouts, on a few blades, with no modifier or three of them.
InitIO ==
  /\ TypeInit
  /\ \E g \in ModGrids, layout \in HtcLayouts, lay \in AeLayouts :
       orig = [htc |-> HtcFile(layout, EvenGrid(g), TwistProfile("washout")),
               ae |-> AeFile(lay, Sections(g, 1))]
  /\ \E en \in {{}, {"root_linear_chord_addition", "twist_the_root",
                     "make_root_cylindrical"}} :
       params = [enabled |-> en, chord_addition |-> Q(-1), twist_addition |-> Q(-13),
                 changes_until |-> Rat(1, 2), changes_from |-> Rat(3, 5),
                 manual_multiplier |-> ManualMultiplier(MaxWeights)]

SpecIO == InitIO /\ [][Next]_vars

\* Every pair of radius grids: the element table on 2..MaxSec radii, the
\* twist sub-table on n_sec radii, with or without one twist modifier.
InitInterp ==
  /\ TypeInit
  /\ \E n \in 2..MaxSec, prof \in {"washout", "linear"} :
       \E g \in IncSeqs(n, 1), tg \in IncSeqs(n_sec, 1) :
         orig = [htc |-> HtcFile("tab_after_sec", tg, TwistProfile(prof)),
                 ae |-> AeFile([tab |-> TRUE, extra |-> TRUE, indent |-> "",
                                blank |-> FALSE], Sections(g, 1))]
  /\ \E en \in {{}, {"twist_the_root"}} :
       params = [enabled |-> en, chord_addition |-> Q(-1), twist_addition |-> Q(-13),
                 changes_until |-> Rat(1, 2), changes_from |-> Rat(3, 5),
                 manual_multiplier |-> ManualMultiplier(MaxWeights)]

SpecInterp == InitInterp /\ [][Next]_vars

\* ------------------------------------------------------------ properties
N == Len(geo_mat)
RootKinds == {"root_linear_chord_addition", "twist_the_root", "supertwist_the_root",
              "make_root_cylindrical"}
\* The step at hand applies an enabled root-selecting modifier.
RootStep == pc \in RootKinds /\ pc \in params.enabled
AtOrBelow(k) == RLe(radius_nd[k], params.changes_until)
\* What the modifier at hand writes into section k differs from what is there.
Effective(k) ==
  CASE pc = "root_linear_chord_addition" ->
         RMul(params.chord_addition, RSub(radius_nd[k], Q(1))) # Q(0)
    [] pc = "twist_the_root" ->
         RMul(params.twist_addition, RSub(radius_nd[k], Q(1))) # Q(0)
    [] pc = "supertwist_the_root" ->
         /\ k <= Len(params.manual_multiplier)
         /\ RMul(params.twist_addition, params.manual_multiplier[k]) # Q(0)
    [] pc = "make_root_cylindrical" -> working_mat[k].rel_thickness # Q(100)
    [] OTHER -> FALSE

\* C1 as stated: under a root-selecting modifier the sections the step
\* changes are exactly those with normalized radius <= threshold.
C1_ChangedExactlySelected ==
  [][RootStep => \A k \in 1..N : (working_mat'[k] # working_mat[k]) <=> AtOrBelow(k)]_vars

\* C1 amended: a section above the threshold keeps all four fields; a section
\* at or below it (boundary included) changes exactly when the value the
\* modifier writes differs from the one it holds.
C1_SelectionBoundary ==
  [][RootStep => \A k \in 1..N :
        /\ ~AtOrBelow(k) => working_mat'[k] = working_mat[k]
        /\ (working_mat'[k] # working_mat[k]) <=> (AtOrBelow(k) /\ Effective(k))]_vars

\* A section exactly on the threshold has been changed by the linear root
\* chord shift while a section above it still has its baseline chord.
C1_Witness ==
  /\ pc = "tip_cos_chord_addition"
  /\ "root_linear_chord_addition" \in params.enabled
  /\ \E k \in 1..N : /\ radius_nd[k] = params.changes_until
                     /\ working_mat[k].chord # geo_mat[k].chord
  /\ \E k \in 1..N : /\ RLt(params.changes_until, radius_nd[k])
                     /\ working_mat[k] = geo_mat[k]

ScenarioBlade ==
  /\ Column(geo_mat, "radius") = <<Q(0), Q(50), Q(100)>>
  /\ Column(geo_mat, "chord") = <<Q(5), Q(4), Q(3)>>
  /\ params.changes_until = <<1, 2>>
  /\ params.chord_addition = Q(-1)
\* C2: after the linear root chord shift, chord[i] = chord[i] - a*(r[i] - 1)
\* where r[i] <= t and chord[i] is unchanged elsewhere; radii [0, 50, 100],
\* chords [5, 4, 3], t = 0.5, a = -1 give chords [4, 3.5, 3].
C2_LinearRootChord ==
  (pc = "tip_cos_chord_addition" /\ "root_linear_chord_addition" \in params.enabled) =>
    /\ \A k \in 1..N :
         LET r == RDiv(geo_mat[k].radius, geo_mat[N].radius) IN
         working_mat[k].chord =
           IF RLe(r, params.changes_until)
           THEN RSub(geo_mat[k].chord, RMul(params.chord_addition, RSub(r, Q(1))))
           ELSE geo_mat[k].chord
    /\ ScenarioBlade => Column(working_mat, "chord") = <<Q(4), <<7, 2>>, Q(3)>>

C2_Witness ==
  /\ pc = "tip_cos_chord_addition"
  /\ "root_linear_chord_addition" \in params.enabled
  /\ ScenarioBlade
  /\ Column(working_mat, "chord") = <<Q(4), <<7, 2>>, Q(3)>>

\* C3: whatever modifiers are enabled, geo_mat stays what the reader built
\* from the two files.
C3_BaselineUntouched ==
  (pc = "resample" \/ (pc = "failed" /\ err = "IndexError" /\ ~new_htc.exists)) =>
    geo_mat = GeoMat(LoadTxt(orig.ae), GenFromTxt(orig.htc))

\* All six modifiers ran and the working record differs from the baseline.
C3_Witness ==
  /\ pc = "resample"
  /\ params.enabled = Kinds
  /\ \E k \in 1..N : /\ working_mat[k].chord # geo_mat[k].chord
                     /\ working_mat[k].twist # geo_mat[k].twist

\* The sections the manual-profile shift selects, and the position of
\* section k among them in file order.
Selected == {k \in 1..N : AtOrBelow(k)}
Rank(k) == Cardinality({m \in Selected : m < k}) + 1
ManualStep == pc = "supertwist_the_root" /\ pc \in params.enabled
TooFewWeights == Cardinality(Selected) > Len(params.manual_multiplier)
ManualShift(k) ==
  RAdd(working_mat[k].twist,
       RMul(params.twist_addition, params.manual_multiplier[Rank(k)]))

\* C7 as stated: with fewer weights than selected sections the run fails
\* with ConfigurationError.
C7_ConfigurationError ==
  [][(ManualStep /\ TooFewWeights) => (pc' = "failed" /\ err' = "ConfigurationError")]_vars

\* C7 amended: with fewer weights than selected sections the run fails
\* with IndexError at the first selected section that has no weight (the
\* selected sections before it have received their shift); with enough
\* weights the j-th selected section receives twist += amount * weight[j]
\* and the run goes on.
C7_ManualProfile ==
  [][ManualStep =>
       IF TooFewWeights
       THEN /\ pc' = "failed"
            /\ err' = "IndexError"
            /\ \A k \in 1..N :
                 working_mat'[k] =
                   IF k \in Selected /\ Rank(k) <= Len(params.manual_multiplier)
                   THEN [working_mat[k] EXCEPT !.twist = ManualShift(k)]
                   ELSE working_mat[k]
       ELSE /\ pc' = "make_root_cylindrical"
            /\ err' = err
            /\ \A k \in 1..N :
                 working_mat'[k] =
                   IF k \in Selected
                   THEN [working_mat[k] EXCEPT !.twist = ManualShift(k)]
                   ELSE working_mat[k]]_vars

\* Two weights for three selected sections: the run has failed, the first
\* two sections carry their shift.
C7_Witness ==
  /\ pc = "failed"
  /\ err = "IndexError"
  /\ "supertwist_the_root" \in params.enabled
  /\ Len(params.manual_multiplier) = 2
  /\ Cardinality(Selected) = 3
  /\ params.twist_addition # Q(0)
  /\ working_mat[2].twist # geo_mat[2].twist
  /\ working_mat[3].twist = geo_mat[3].twist

ZeroAmounts == params.chord_addition = Q(0) /\ params.twist_addition = Q(0)
Twice == ModifierStack(working_mat, radius_nd, params).mat
\* C9 as stated: with every amount zero, any set of enabled modifiers,
\* applied once or twice, leaves every field of every section at its
\* baseline value.
C9_ZeroAmountNoOp ==
  (pc = "resample" /\ ZeroAmounts) => (working_mat = geo_mat /\ Twice = geo_mat)

CylinderHere(k) == "make_root_cylindrical" \in params.enabled /\ AtOrBelow(k)
C9_AfterStage ==
  (pc = "resample" /\ ZeroAmounts) =>
    /\ \A k \in 1..N :
         /\ working_mat[k].radius = geo_mat[k].radius
         /\ working_mat[k].twist = geo_mat[k].twist
         /\ working_mat[k].chord = geo_mat[k].chord
         /\ working_mat[k].rel_thickness =
              IF CylinderHere(k) THEN Q(100) ELSE geo_mat[k].rel_thickness
    /\ Twice = working_mat
\* C9 amended: with every amount zero, applied once or twice, radius, twist
\* and chord of every section keep their baseline value, and so does
\* rel_thickness except on the sections at or below the threshold of an
\* enabled cylindrical override, which read 100; the second application
\* changes nothing the first has not.  When the manual-profile shift stops
\* the stage with IndexError, every field is at its baseline value.
C9_ZeroAmountCylinder ==
  /\ C9_AfterStage
  /\ (pc = "failed" /\ err = "IndexError" /\ ~new_htc.exists /\ ZeroAmounts) =>
       working_mat = geo_mat

\* Zero amounts, all six modifiers enabled: a section that was no cylinder
\* has become one, everything else is at its baseline.
C9_Witness ==
  /\ pc = "resample"
  /\ ZeroAmounts
  /\ params.enabled = Kinds
  /\ \E k \in 1..N : /\ geo_mat[k].rel_thickness # Q(100)
                     /\ working_mat[k].rel_thickness = Q(100)

\* ------------------------------------------------------------ file properties
AfterHtcWrite == pc \in {"ae_read", "ae_loop", "ae_write", "run", "done"}
AfterAeWrite == pc \in {"run", "done"}
\* Line k (1-based) of the configuration file lies in the twist-table range
\* [htc_start_line, htc_start_line + n_sec) of 0-based line numbers.
InRange(k) == k - 1 >= htc_start_line /\ k - 1 < htc_start_line + n_sec
NamesAeFile(k) == \E a \in 1..Len(orig.htc[k].toks) :
                    \E b \in 1..Len(orig.htc[k].toks[a]) :
                      orig.htc[k].toks[a][b].t = "ae_filename"
HoldsNewline(f) == f.t = "repr;\n"

\* C4 as stated: the written configuration file differs from the copy only
\* in the 5th whitespace-delimited field of each twist-table line and in the
\* reference line; on a twist-table line every other field keeps its value,
\* its order and its place on that line.
C4_OnlyFifthField ==
  AfterHtcWrite =>
    /\ Len(new_htc.lines) = Len(orig.htc)
    /\ \A k \in 1..Len(orig.htc) :
         IF InRange(k)
         THEN LET fo == WsFields(orig.htc[k])
                  fn == WsFields(new_htc.lines[k])
              IN  /\ Len(fn) = Len(fo)
                  /\ \A m \in 1..Len(fo) : m # 5 => fn[m] = fo[m]
                  /\ \A m \in 1..(Len(fn) - 1) : ~HoldsNewline(fn[m])
         ELSE NamesAeFile(k) \/ new_htc.lines[k] = orig.htc[k]

\* C4 amended: the written configuration file differs from the copy only in
\* the twist-table lines and in the lines that contain ae_filename.  A
\* twist-table line is rebuilt from its single-space-separated tokens, the
\* first empty one dropped: two tabs lead it, the token at index 4 is the
\* resampled twist followed by ";" and a newline, the tokens before it keep
\* value and order, the tokens after it keep value and order and follow that
\* newline.
C4_TwistTokenRewritten ==
  AfterHtcWrite =>
    /\ Len(new_htc.lines) = Len(orig.htc)
    /\ \A k \in 1..Len(orig.htc) :
         LET old == orig.htc[k]
             new == new_htc.lines[k]
             ot == RemoveFirstEmpty(old.toks)
         IN  IF InRange(k)
             THEN /\ new.indent = "\t\t"
                  /\ new.nl = FALSE
                  /\ Len(new.toks) = Len(ot)
                  /\ \A m \in 1..Len(ot) : m # 5 => new.toks[m] = ot[m]
                  /\ new.toks[5] = <<[t |-> "repr;\n", v |-> htc_twist[k - htc_start_line]]>>
             ELSE IF NamesAeFile(k)
             THEN new = Line("\t", << <<W("ae_filename")>>,
                                      <<W("./data/WDR_10_MW_ae.dat;")>> >>, TRUE)
             ELSE new = old

\* The file is written and a twist-table line had a token after index 4: it
\* now follows the newline that ends the twist token.
C4_Witness ==
  /\ pc = "done"
  /\ \E k \in 1..Len(orig.htc) :
       /\ InRange(k)
       /\ Len(new_htc.lines[k].toks) > 5
       /\ HoldsNewline(new_htc.lines[k].toks[5][1])

C8_NoDerivedFile ==
  pc = "quit" => (~new_htc.exists /\ ~new_ae.exists /\ solver_runs = 0)

\* C8 amended: when the copy step fails the run is over, the solver has not
\* run, the derived element table does not exist, and the derived
\* configuration file either does not exist (its own copy failed) or is the
\* unmodified copy of the original (the element-table copy failed).
C8_CopyFailure ==
  err = "copy" =>
    /\ pc = "quit"
    /\ solver_runs = 0
    /\ ~new_ae.exists
    /\ new_htc.exists => new_htc.lines = orig.htc

\* The element-table copy failed after the configuration file was copied.
C8_Witness == pc = "quit" /\ new_htc.exists /\ ~new_ae.exists

HtcIsCopy == new_htc.lines = orig.htc
HtcComplete ==
  /\ Len(new_htc.lines) = Len(orig.htc)
  /\ \A k \in 1..Len(orig.htc) :
       (new_htc.lines[k] # orig.htc[k]) <=> (InRange(k) \/ NamesAeFile(k))
AeIsCopy == new_ae.lines = orig.ae
AeComplete ==
  /\ Len(new_ae.lines) = Len(orig.ae)
  /\ \A k \in 1..Len(orig.ae) : (new_ae.lines[k] # orig.ae[k]) <=> (k > ae_start_line)
\* C10: a derived file is the copy of the original or completely rewritten,
\* never in between; the configuration file is complete before the element
\* table changes, and the solver runs only when both are complete.
C10_NoMixedFile ==
  /\ new_htc.exists => (HtcIsCopy \/ HtcComplete)
  /\ new_ae.exists => (AeIsCopy \/ AeComplete)
  /\ pc \in {"htc_read", "htc_loop", "htc_write"} => (HtcIsCopy /\ AeIsCopy)
  /\ pc \in {"ae_read", "ae_loop", "ae_write"} => (HtcComplete /\ AeIsCopy)
  /\ (new_ae.exists /\ ~AeIsCopy) => HtcComplete
  /\ solver_runs > 0 => (HtcComplete /\ AeComplete)

\* The run stopped in the element-table loop after rebuilding rows in
\* memory: the configuration file is complete, the element table is the copy.
C10_Witness ==
  /\ pc = "failed"
  /\ new_htc.exists /\ HtcComplete
  /\ new_ae.exists /\ AeIsCopy
  /\ i > ae_start_line
  /\ content # new_ae.lines

\* ------------------------------------------------------------ resampling
NoModifier == params.enabled = {}
TwistRead == GenFromTxt(orig.htc).col1

\* C6 as stated: with no modifier, the twist resampled for the sub-table is
\* the twist read from the sub-table, whatever the two radius grids.
C6_RoundTrip == (pc = "copy_files" /\ NoModifier) => htc_twist = TwistRead

SubTableOnElementGrid ==
  \A j \in 1..Len(twist_radii) : \E k \in 1..N : geo_mat[k].radius = twist_radii[j]
\* C6 amended: it is, when every radius of the sub-table is also a radius of
\* the element table.
C6_RoundTripOnSharedGrid ==
  (pc = "copy_files" /\ NoModifier /\ SubTableOnElementGrid) => htc_twist = TwistRead

\* A sub-table whose radii are some, not all, of the element table's.
C6_Witness ==
  /\ pc = "copy_files"
  /\ NoModifier
  /\ SubTableOnElementGrid
  /\ N > Len(twist_radii)
  /\ htc_twist = TwistRead

====
